---- MODULE Spec2Model ----
(***************************************************************************)
(* AlterCycle: a circular singly linked list whose nodes carry a binary    *)
(* orientation (altercycle_core/linked_list.py, altercycle_core/node.py).  *)
(*                                                                         *)
(* The heap is the sequence `nodes`: node i is nodes[i], a reference is an *)
(* index, None is 0.  Between calls of the sequential machine only the     *)
(* container refers to nodes, so a node that is no longer reachable from   *)
(* head is reclaimed (as CPython does when its last reference goes) and    *)
(* the live nodes are numbered in the order next links them from head.     *)
(***************************************************************************)
EXTENDS Integers, Sequences, FiniteSets, TLC

\* ---------------------------------------------------------------- bounds
\* Largest value of the size counter: append and insert_after are offered
\* only below it.
MaxSize == 4
\* Appends made in the append-only specification SpecAppend.
MaxAppends == 6
\* Largest |positions| handed to flip_states.
MaxLaps == 2
\* Threads of the threaded specifications.
NumThreads == 2
\* Calls each thread makes in SpecThreads.
CallsPerThread == 2
\* Nodes ever allocated in SpecGuarded.
MaxHeap == 3

\* The largest num_threads passed to process_parallel.
MaxWorkers == 2
\* Nodes ever allocated in SpecContended.
MaxContended == 2

\* ---------------------------------------------------------------- inputs
None == 0

Values == {"A", "B"}

\* The values of callers that never store a value twice.
DistinctValues == {"A", "B", "C", "D"}

\* A metadata dict is the set of its (key, value) items; None and {} both
\* become the empty dict (node.py: metadata or {}).
Metas == {{}, {<<"ts", 1>>}}

Positions == (0 - MaxLaps)..MaxLaps

PatternLengths == 0..(MaxSize + 1)

Threads == 1..NumThreads

\* The transform functions a caller may pass: every map from (data, state)
\* to data over the values of the model.
TransformFuncs == [Values \X {0, 1} -> Values]

\* The readings of the clock, time.time().
Timestamps == {1, 2}

\* nodes, head, size: the container.  ret, before, appended: the calls of the
\* sequential machine.  lock, pc, loc, calls: the threads of the threaded
\* specifications (lock is the thread holding self._lock, or None).  main,
\* workers: the caller of process_parallel and the threads it has started.
\* checkpoint: the value of the last create_checkpoint call, as its caller
\* keeps it.
VARIABLES nodes, head, size, ret, before, appended, lock, pc, loc, calls, main, workers, checkpoint

vars == <<nodes, head, size, ret, before, appended, lock, pc, loc, calls,
          main, workers, checkpoint>>

\* What the statements of the lock-guarded threads leave alone.
seqvars == <<ret, before, appended, main, workers, checkpoint>>

\* What a whole call by a single caller leaves alone.
threadvars == <<lock, pc, loc, calls, main, workers, checkpoint>>

\* ------------------------------------------------------------- AlterNode
\* AlterNode.__init__: orientation defaults to 0, next to None.
AlterNode(data, metadata) ==
    [data |-> data, orientation |-> 0, next |-> None, metadata |-> metadata]

\* AlterNode.flip_orientation
flip_orientation(o) == 1 - o

\* AlterNode.__eq__ as used by `a == b` / `a != b` on two references:
\* value equality over (data, orientation, metadata); against None the
\* comparison falls back to identity.
NodeEq(ns, a, b) ==
    IF a = None \/ b = None
    THEN a = b
    ELSE /\ ns[a].data = ns[b].data
         /\ ns[a].orientation = ns[b].orientation
         /\ ns[a].metadata = ns[b].metadata

\* ------------------------------------------------------------ traversals
\* while current.next != self.head: current = current.next
\* (append, and the head branch of remove).  `fuel` bounds the recursion by
\* the heap size; a closed ring never exhausts it.
RECURSIVE WalkToSeam(_, _, _, _)
WalkToSeam(ns, h, current, fuel) ==
    IF fuel = 0 \/ NodeEq(ns, ns[current].next, h)
    THEN current
    ELSE WalkToSeam(ns, h, ns[current].next, fuel - 1)

\* The nodes a `while True: ...; current = current.next;
\* if current == self.head: break` loop visits, in order.
RECURSIVE LoopNodes(_, _, _, _)
LoopNodes(ns, h, current, fuel) ==
    IF fuel = 0 \/ NodeEq(ns, ns[current].next, h)
    THEN <<current>>
    ELSE <<current>> \o LoopNodes(ns, h, ns[current].next, fuel - 1)

Visited(ns, h) == IF h = None THEN <<>> ELSE LoopNodes(ns, h, h, Len(ns))

\* AlterCycle.__iter__: the (data, orientation) pairs the generator yields.
Iterate(ns, h) ==
    LET vs == Visited(ns, h)
    IN  [i \in 1..Len(vs) |-> <<ns[vs[i]].data, ns[vs[i]].orientation>>]

\* AlterCycle.__len__
LenOf(sz) == sz

\* ---------------------------------------------------------------- append
\* A slip: the new node copies its predecessor's orientation.
AppendOrientationCopied(o) == o

\* new_node.orientation = 1 - current.orientation
AppendOrientation(o) == 1 - o

\* AlterCycle.append: the heap and head after append(data, metadata).
AppendNodes(ns, h, data, metadata) ==
    LET new == Len(ns) + 1
        node == AlterNode(data, metadata)
    IN  IF h = None
        THEN Append(ns, [node EXCEPT !.next = new])
        ELSE LET current == WalkToSeam(ns, h, h, Len(ns))
             IN  [Append(ns, [node EXCEPT
                                !.orientation = AppendOrientation(ns[current].orientation),
                                !.next = h])
                    EXCEPT ![current].next = new]

AppendHead(ns, h) == IF h = None THEN Len(ns) + 1 ELSE h

\* ---------------------------------------------------------- insert_after
\* The first node the scan of insert_after finds with data == target_data,
\* or None when the scan comes back to (a node equal to) head.
RECURSIVE FindTarget(_, _, _, _, _)
FindTarget(ns, h, current, target, fuel) ==
    IF ns[current].data = target THEN current
    ELSE IF fuel = 0 \/ NodeEq(ns, ns[current].next, h) THEN None
    ELSE FindTarget(ns, h, ns[current].next, target, fuel - 1)

InsertTarget(ns, h, target) ==
    IF h = None THEN None ELSE FindTarget(ns, h, h, target, Len(ns))

\* A slip: the inserted node copies the orientation of the node it follows.
InsertNodesCopied(ns, h, target, data) ==
    LET current == InsertTarget(ns, h, target)
        new == Len(ns) + 1
    IN  IF current = None THEN ns
        ELSE [Append(ns, [AlterNode(data, {}) EXCEPT
                            !.next = ns[current].next,
                            !.orientation = ns[current].orientation])
                EXCEPT ![current].next = new]

InsertNodes(ns, h, target, data) ==
    LET current == InsertTarget(ns, h, target)
        new == Len(ns) + 1
    IN  IF current = None THEN ns
        ELSE [Append(ns, [AlterNode(data, {}) EXCEPT
                            !.next = ns[current].next,
                            !.orientation = 1 - ns[current].orientation])
                EXCEPT ![current].next = new]

\* ---------------------------------------------------------------- remove
\* The scan of the rest of the ring: the node whose successor is removed, or
\* None when current.next comes back to (a node equal to) head.
RECURSIVE FindPred(_, _, _, _, _)
FindPred(ns, h, current, data, fuel) ==
    IF fuel = 0 \/ NodeEq(ns, ns[current].next, h) THEN None
    ELSE IF ns[ns[current].next].data = data THEN current
    ELSE FindPred(ns, h, ns[current].next, data, fuel - 1)

\* A remove that counts a removal even when the scan found no node.
RemoveResultCounted(ns, h, sz, data) ==
    IF h = None THEN <<ns, h, sz, FALSE>>
    ELSE IF ns[h].data = data
    THEN IF NodeEq(ns, ns[h].next, h)
         THEN <<ns, None, sz - 1, TRUE>>
         ELSE LET current == WalkToSeam(ns, h, h, Len(ns))
              IN  <<[ns EXCEPT ![current].next = ns[h].next], ns[h].next, sz - 1, TRUE>>
    ELSE LET current == FindPred(ns, h, h, data, Len(ns))
         IN  IF current = None THEN <<ns, h, sz - 1, FALSE>>
             ELSE <<[ns EXCEPT ![current].next = ns[ns[current].next].next],
                    h, sz - 1, TRUE>>

\* A removal that restores alternation across the gap by flipping the node
\* that followed the removed one.
RemoveResultRealternated(ns, h, sz, data) ==
    IF h = None THEN <<ns, h, sz, FALSE>>
    ELSE IF ns[h].data = data
    THEN IF NodeEq(ns, ns[h].next, h)
         THEN <<ns, None, sz - 1, TRUE>>
         ELSE LET current == WalkToSeam(ns, h, h, Len(ns))
              IN  <<[ns EXCEPT ![current].next = ns[h].next], ns[h].next, sz - 1, TRUE>>
    ELSE LET current == FindPred(ns, h, h, data, Len(ns))
         IN  IF current = None THEN <<ns, h, sz, FALSE>>
             ELSE LET following == ns[ns[current].next].next
                  IN  <<[ns EXCEPT ![current].next = following,
                                   ![following].orientation =
                                       IF following = current THEN @
                                       ELSE flip_orientation(ns[current].orientation)],
                        h, sz - 1, TRUE>>

\* AlterCycle.remove: <<heap, head, size, returned value>> after remove(data).
RemoveResult(ns, h, sz, data) ==
    IF h = None THEN <<ns, h, sz, FALSE>>
    ELSE IF ns[h].data = data
    THEN IF NodeEq(ns, ns[h].next, h)
         THEN <<ns, None, sz - 1, TRUE>>
         ELSE LET current == WalkToSeam(ns, h, h, Len(ns))
              IN  <<[ns EXCEPT ![current].next = ns[h].next], ns[h].next, sz - 1, TRUE>>
    ELSE LET current == FindPred(ns, h, h, data, Len(ns))
         IN  IF current = None THEN <<ns, h, sz, FALSE>>
             ELSE <<[ns EXCEPT ![current].next = ns[ns[current].next].next],
                    h, sz - 1, TRUE>>

\* ------------------------------------------------------ create_checkpoint
\* An entry that keeps the node itself instead of copying its fields.
CheckpointEntryAlias(ns, current) == [node |-> current]

\* The entry appended for the node the walk stands on: a dict literal holding
\* the node's data, orientation and metadata as they are at that moment.
CheckpointEntry(ns, current) ==
    [data |-> ns[current].data,
     orientation |-> ns[current].orientation,
     metadata |-> ns[current].metadata]

\* A list that holds the entries newest first.
CheckpointNodesReversed(ns, h) ==
    LET vs == Visited(ns, h)
    IN  [i \in 1..Len(vs) |-> CheckpointEntry(ns, vs[Len(vs) + 1 - i])]

\* checkpoint['nodes'] at the end of the `while True` loop of
\* create_checkpoint, which stops when the node reached equals head.
CheckpointNodes(ns, h) ==
    LET vs == Visited(ns, h)
    IN  [i \in 1..Len(vs) |-> CheckpointEntry(ns, vs[i])]

\* --------------------------------------------------- apply_transformation
\* The `while True` of apply_transformation, entered at `current`: replace
\* the data, advance, stop when the node reached equals head as it is now.
RECURSIVE ApplyLap(_, _, _, _, _)
ApplyLap(ns, h, current, transform_func, fuel) ==
    LET done == [ns EXCEPT ![current].data =
                    transform_func[<<ns[current].data, ns[current].orientation>>]]
        nxt == ns[current].next
    IN  IF fuel = 0 \/ NodeEq(done, nxt, h) THEN done
        ELSE ApplyLap(done, h, nxt, transform_func, fuel - 1)

ApplyNodes(ns, h, transform_func) ==
    IF h = None THEN ns ELSE ApplyLap(ns, h, h, transform_func, Len(ns))

\* ----------------------------------------------------------- flip_states
\* One pass of the inner `while True` of flip_states, entered at `current`:
\* flip, advance, stop when the node reached equals head.  Yields the heap
\* and the node the pass stopped on (where the next pass starts).
RECURSIVE FlipLap(_, _, _, _)
FlipLap(ns, h, current, fuel) ==
    LET flipped == [ns EXCEPT ![current].orientation = flip_orientation(@)]
        nxt == ns[current].next
    IN  IF fuel = 0 \/ NodeEq(flipped, nxt, h)
        THEN <<flipped, nxt>>
        ELSE FlipLap(flipped, h, nxt, fuel - 1)

RECURSIVE FlipLaps(_, _, _, _)
FlipLaps(ns, h, current, laps) ==
    IF laps = 0 THEN ns
    ELSE LET r == FlipLap(ns, h, current, Len(ns))
         IN  FlipLaps(r[1], h, r[2], laps - 1)

Abs(k) == IF k < 0 THEN 0 - k ELSE k

\* AlterCycle.flip_states: the heap after flip_states(positions).
FlipNodes(ns, h, positions) ==
    IF h = None \/ positions = 0 THEN ns
    ELSE FlipLaps(ns, h, h, Abs(positions))

\* --------------------------------------------------------- find_patterns
\* The window read at `node`: pattern_length (data, orientation) pairs
\* following next.
RECURSIVE Window(_, _, _)
Window(ns, node, n) ==
    IF n <= 0 THEN <<>>
    ELSE <<<<ns[node].data, ns[node].orientation>>>> \o Window(ns, ns[node].next, n - 1)

\* A search that lets a pattern be one node longer than the container.
FindPatternsOneLonger(ns, h, sz, pattern_length) ==
    IF h = None \/ pattern_length > LenOf(sz) + 1 THEN {}
    ELSE LET starts == Visited(ns, h)
             win(i) == Window(ns, starts[i], pattern_length)
             freq(w) == Cardinality({i \in 1..Len(starts) : win(i) = w})
         IN  {<<win(i), freq(win(i))>> : i \in {j \in 1..Len(starts) : freq(win(j)) > 1}}

\* AlterCycle.find_patterns: the (pattern, frequency) entries returned, as a
\* set (the order of the returned list is the dict's insertion order).
FindPatterns(ns, h, sz, pattern_length) ==
    IF h = None \/ pattern_length > LenOf(sz) THEN {}
    ELSE LET starts == Visited(ns, h)
             win(i) == Window(ns, starts[i], pattern_length)
             freq(w) == Cardinality({i \in 1..Len(starts) : win(i) = w})
         IN  {<<win(i), freq(win(i))>> : i \in {j \in 1..Len(starts) : freq(win(j)) > 1}}

\* ------------------------------------------------------------- the heap
Range(s) == {s[i] : i \in DOMAIN s}

\* The nodes reachable from `current` by following next, each once, in the
\* order reached.
RECURSIVE ReachOrder(_, _, _)
ReachOrder(ns, current, acc) ==
    IF current = None \/ current \in Range(acc) THEN acc
    ELSE ReachOrder(ns, ns[current].next, Append(acc, current))

\* The nodes the container keeps alive: those reachable from head.
Live(ns, h) == ReachOrder(ns, h, <<>>)

IndexOf(s, x) == CHOOSE i \in DOMAIN s : s[i] = x

\* The heap without the nodes nothing refers to, the live ones renumbered
\* in the order next links them from head.
Compact(ns, h) ==
    LET live == Live(ns, h)
    IN  [i \in 1..Len(live) |->
            [ns[live[i]] EXCEPT !.next = IF @ = None THEN None ELSE IndexOf(live, @)]]

CompactHead(h) == IF h = None THEN None ELSE 1

\* The locals of a thread that is in no call.
NoLocals ==
    [data |-> "", new_data |-> "", metadata |-> {},
     current |-> None, new_node |-> None, tmp |-> 0]

\* ------------------------------------------------- the sequential machine
\* ret is the last call and what it returned; before is the heap a
\* flip_states call started from; appended is the (data, metadata) arguments
\* of the appends made (kept by SpecAppend only).
\* No checkpoint was taken yet.
NoCheckpoint == [nodes |-> <<>>, timestamp |-> 0]

\* The caller of process_parallel when no call is under way.
NoCall ==
    [pc |-> "idle", num_threads |-> 0, length |-> 0, nodes_per_thread |-> 0,
     current |-> None, i |-> 0, count |-> 0, left |-> 0, joined |-> 0]

Init ==
    /\ nodes = <<>>
    /\ head = None
    /\ size = 0
    /\ ret = [op |-> "init", arg |-> <<>>, val |-> <<>>]
    /\ before = <<>>
    /\ appended = <<>>
    /\ lock = None
    /\ pc = [t \in Threads |-> "idle"]
    /\ loc = [t \in Threads |-> NoLocals]
    /\ calls = [t \in Threads |-> 0]
    /\ main = NoCall
    /\ workers = <<>>
    /\ checkpoint = NoCheckpoint

append(data, metadata) ==
    /\ nodes' = Compact(AppendNodes(nodes, head, data, metadata), AppendHead(nodes, head))
    /\ head' = CompactHead(AppendHead(nodes, head))
    /\ size' = size + 1
    /\ ret' = [op |-> "append", arg |-> <<data, metadata>>, val |-> <<>>]
    /\ before' = <<>>

insert_after(target_data, new_data) ==
    /\ nodes' = Compact(InsertNodes(nodes, head, target_data, new_data), head)
    /\ size' = IF InsertTarget(nodes, head, target_data) = None THEN size ELSE size + 1
    /\ ret' = [op |-> "insert_after", arg |-> <<target_data, new_data>>,
               val |-> InsertTarget(nodes, head, target_data) # None]
    /\ before' = <<>>
    /\ UNCHANGED head

remove(data) ==
    LET r == RemoveResult(nodes, head, size, data)
    IN  /\ nodes' = Compact(r[1], r[2])
        /\ head' = CompactHead(r[2])
        /\ size' = r[3]
        /\ ret' = [op |-> "remove", arg |-> <<data>>, val |-> r[4]]
        /\ before' = <<>>

flip_states(positions) ==
    /\ nodes' = FlipNodes(nodes, head, positions)
    /\ ret' = [op |-> "flip_states", arg |-> <<positions>>, val |-> <<>>]
    /\ before' = nodes
    /\ UNCHANGED <<head, size>>

find_patterns(pattern_length) ==
    /\ ret' = [op |-> "find_patterns", arg |-> <<pattern_length>>,
               val |-> FindPatterns(nodes, head, size, pattern_length)]
    /\ before' = <<>>
    /\ UNCHANGED <<nodes, head, size>>

iter ==
    /\ ret' = [op |-> "iter", arg |-> <<>>, val |-> Iterate(nodes, head)]
    /\ before' = <<>>
    /\ UNCHANGED <<nodes, head, size>>

len ==
    /\ ret' = [op |-> "len", arg |-> <<>>, val |-> LenOf(size)]
    /\ before' = <<>>
    /\ UNCHANGED <<nodes, head, size>>

apply_transformation(transform_func) ==
    /\ nodes' = ApplyNodes(nodes, head, transform_func)
    /\ ret' = [op |-> "apply_transformation", arg |-> <<transform_func>>, val |-> <<>>]
    /\ before' = <<>>
    /\ UNCHANGED <<head, size>>

\* str(checkpoint) is rendered when the call returns, so the caller holds the
\* entries and the clock reading as values.
create_checkpoint(timestamp) ==
    /\ checkpoint' = [nodes |-> CheckpointNodes(nodes, head), timestamp |-> timestamp]
    /\ ret' = [op |-> "create_checkpoint", arg |-> <<>>,
               val |-> [nodes |-> CheckpointNodes(nodes, head), timestamp |-> timestamp]]
    /\ before' = <<>>
    /\ UNCHANGED <<nodes, head, size>>

CallAppend == \E v \in Values, m \in Metas :
    size < MaxSize /\ append(v, m) /\ UNCHANGED <<appended, threadvars>>

CallInsertAfter == \E t \in Values, v \in Values :
    size < MaxSize /\ insert_after(t, v) /\ UNCHANGED <<appended, threadvars>>

CallRemove == \E v \in Values : remove(v) /\ UNCHANGED <<appended, threadvars>>

CallFlipStates == \E k \in Positions : flip_states(k) /\ UNCHANGED <<appended, threadvars>>

CallFindPatterns == \E n \in PatternLengths : find_patterns(n) /\ UNCHANGED <<appended, threadvars>>

CallIter == iter /\ UNCHANGED <<appended, threadvars>>

CallLen == len /\ UNCHANGED <<appended, threadvars>>

\* Every operation, one call after the other.
Next ==
    \/ CallAppend
    \/ CallInsertAfter
    \/ CallRemove
    \/ CallFlipStates
    \/ CallFindPatterns
    \/ CallIter
    \/ CallLen

Spec == Init /\ [][Next]_vars

\* Structural edits only (append, insert_after, remove), with the queries.
NextEdits ==
    \/ CallAppend
    \/ CallInsertAfter
    \/ CallRemove
    \/ CallIter
    \/ CallLen

SpecEdits == Init /\ [][NextEdits]_vars

CallApplyTransformation == \E f \in TransformFuncs :
    apply_transformation(f) /\ UNCHANGED <<appended, threadvars>>

\* Edits followed by transformations of the values in place.
NextTransform ==
    \/ CallAppend
    \/ CallRemove
    \/ CallApplyTransformation
    \/ CallIter

SpecTransform == Init /\ [][NextTransform]_vars

CallCreateCheckpoint == \E t \in Timestamps :
    /\ create_checkpoint(t)
    /\ UNCHANGED <<appended, lock, pc, loc, calls, main, workers>>

\* A container is built by appends and removes, a checkpoint of it is taken,
\* and one more call of any kind changes the container.
Untaken == checkpoint = NoCheckpoint

JustTaken == ret.op = "create_checkpoint"

KeptAppend == (Untaken \/ JustTaken) /\ CallAppend

KeptRemove == (Untaken \/ JustTaken) /\ CallRemove

TakeCheckpoint == Untaken /\ CallCreateCheckpoint

LaterInsertAfter == JustTaken /\ CallInsertAfter

LaterFlipStates == JustTaken /\ CallFlipStates

LaterApplyTransformation == JustTaken /\ CallApplyTransformation

NextCheckpoint ==
    \/ KeptAppend
    \/ KeptRemove
    \/ TakeCheckpoint
    \/ LaterInsertAfter
    \/ LaterFlipStates
    \/ LaterApplyTransformation

SpecCheckpoint == Init /\ [][NextCheckpoint]_vars

\* Appends and removes, and searches for patterns of every length.
NextPatterns ==
    \/ CallAppend
    \/ CallRemove
    \/ CallFindPatterns

SpecPatterns == Init /\ [][NextPatterns]_vars

\* Callers that keep the stored values pairwise distinct: a value is stored
\* only while no node holds it; any value may be searched for or removed.
Stored == {nodes[i].data : i \in DOMAIN nodes}

AppendDistinct == \E v \in DistinctValues \ Stored, m \in Metas :
    size < MaxSize /\ append(v, m) /\ UNCHANGED <<appended, threadvars>>

InsertAfterDistinct == \E t \in DistinctValues, v \in DistinctValues \ Stored :
    size < MaxSize /\ insert_after(t, v) /\ UNCHANGED <<appended, threadvars>>

RemoveDistinct == \E v \in DistinctValues :
    remove(v) /\ UNCHANGED <<appended, threadvars>>

NextDistinct ==
    \/ AppendDistinct
    \/ InsertAfterDistinct
    \/ RemoveDistinct
    \/ CallIter
    \/ CallLen

SpecDistinct == Init /\ [][NextDistinct]_vars

\* A container that only grows: appends and insertions, and reads.
NextGrow ==
    \/ CallAppend
    \/ CallInsertAfter
    \/ CallIter

SpecGrow == Init /\ [][NextGrow]_vars

\* A fresh container that is only appended to, iterated and searched for
\* repeated pairs (test_basic_operations, test_pattern_detection).
AppendLogged == \E v \in Values, m \in Metas :
    /\ Len(appended) < MaxAppends
    /\ append(v, m)
    /\ appended' = Append(appended, <<v, m>>)
    /\ UNCHANGED threadvars

FindPairs == find_patterns(2) /\ UNCHANGED <<appended, threadvars>>

NextAppend ==
    \/ AppendLogged
    \/ FindPairs
    \/ CallIter

SpecAppend == Init /\ [][NextAppend]_vars

\* The ring is one closed cycle through head, numbered in link order.
RingClosed ==
    /\ head = CompactHead(head)
    /\ head = None <=> nodes = <<>>
    /\ \A i \in DOMAIN nodes : nodes[i].next = IF i = Len(nodes) THEN 1 ELSE i + 1


\* ------------------------------------------------------------ the threads
\* The guarded calls, one statement at a time.  pc[t] is the statement thread
\* t executes next ("idle": in no call, "wait": at `with self._lock`), loc[t]
\* its locals.  Here the heap is not compacted: locals refer to nodes.
Goto(t, label) == pc' = [pc EXCEPT ![t] = label]

\* A slip: the body is entered without taking the lock.
LockAcquireUnguarded(t) == lock' = t

\* with self._lock: enter (blocks while another thread holds the lock).
LockAcquire(t) == lock = None /\ lock' = t

\* A slip: the lock is left held when the with block is left.
LockReleaseForgotten(t) == lock' = lock

\* with self._lock: exit, on return and on an exception alike.
LockRelease(t) == lock' = None

\* An exception leaves the with block.
Raise(t) ==
    /\ Goto(t, "exit")
    /\ UNCHANGED <<nodes, head, size, lock, loc>>

\* A thread calls append, insert_after or remove and reaches the with block.
call(t) ==
    /\ pc[t] = "idle"
    /\ Goto(t, "wait")
    /\ UNCHANGED <<nodes, head, size, lock, loc, seqvars>>

\* append, line 40-41: with self._lock: new_node = AlterNode(data, metadata)
append_enter(t, data, metadata) ==
    /\ pc[t] = "wait"
    /\ LockAcquire(t)
    /\ nodes' = Append(nodes, AlterNode(data, metadata))
    /\ loc' = [loc EXCEPT ![t] = [NoLocals EXCEPT !.data = data,
                                                  !.metadata = metadata,
                                                  !.new_node = Len(nodes) + 1]]
    /\ Goto(t, "a_test")
    /\ UNCHANGED <<head, size, seqvars, calls>>

\* line 42: if not self.head
a_test(t) ==
    /\ pc[t] = "a_test"
    /\ Goto(t, IF head = None THEN "a_head" ELSE "a_cur")
    /\ UNCHANGED <<nodes, head, size, lock, loc, seqvars, calls>>

\* line 43: self.head = new_node
a_head(t) ==
    /\ pc[t] = "a_head"
    /\ head' = loc[t].new_node
    /\ Goto(t, "a_self")
    /\ UNCHANGED <<nodes, size, lock, loc, seqvars, calls>>

\* line 44: self.head.next = self.head
a_self(t) ==
    /\ pc[t] = "a_self"
    /\ IF head = None THEN Raise(t)
       ELSE /\ nodes' = [nodes EXCEPT ![head].next = head]
            /\ Goto(t, "inc_load")
            /\ UNCHANGED <<head, size, lock, loc>>
    /\ UNCHANGED <<seqvars, calls>>

\* line 46: current = self.head
a_cur(t) ==
    /\ pc[t] = "a_cur"
    /\ loc' = [loc EXCEPT ![t].current = head]
    /\ Goto(t, "a_walk")
    /\ UNCHANGED <<nodes, head, size, lock, seqvars, calls>>

\* line 47-48: while current.next != self.head: current = current.next
a_walk(t) ==
    /\ pc[t] = "a_walk"
    /\ IF loc[t].current = None THEN Raise(t)
       ELSE IF ~NodeEq(nodes, nodes[loc[t].current].next, head)
       THEN /\ loc' = [loc EXCEPT ![t].current = nodes[loc[t].current].next]
            /\ UNCHANGED <<nodes, head, size, lock, pc>>
       ELSE /\ Goto(t, "a_orient")
            /\ UNCHANGED <<nodes, head, size, lock, loc>>
    /\ UNCHANGED <<seqvars, calls>>

\* line 49: new_node.orientation = 1 - current.orientation
a_orient(t) ==
    /\ pc[t] = "a_orient"
    /\ nodes' = [nodes EXCEPT ![loc[t].new_node].orientation =
                    AppendOrientation(nodes[loc[t].current].orientation)]
    /\ Goto(t, "a_link")
    /\ UNCHANGED <<head, size, lock, loc, seqvars, calls>>

\* line 50: current.next = new_node
a_link(t) ==
    /\ pc[t] = "a_link"
    /\ nodes' = [nodes EXCEPT ![loc[t].current].next = loc[t].new_node]
    /\ Goto(t, "a_close")
    /\ UNCHANGED <<head, size, lock, loc, seqvars, calls>>

\* line 51: new_node.next = self.head
a_close(t) ==
    /\ pc[t] = "a_close"
    /\ nodes' = [nodes EXCEPT ![loc[t].new_node].next = head]
    /\ Goto(t, "inc_load")
    /\ UNCHANGED <<head, size, lock, loc, seqvars, calls>>

\* line 52 / 76: self._size += 1, the read
inc_load(t) ==
    /\ pc[t] = "inc_load"
    /\ loc' = [loc EXCEPT ![t].tmp = size]
    /\ Goto(t, "inc_store")
    /\ UNCHANGED <<nodes, head, size, lock, seqvars, calls>>

\* line 52 / 76: self._size += 1, the write
inc_store(t) ==
    /\ pc[t] = "inc_store"
    /\ size' = loc[t].tmp + 1
    /\ Goto(t, "exit")
    /\ UNCHANGED <<nodes, head, lock, loc, seqvars, calls>>

\* The end of the with block: the lock is released and the call returns.
exit(t) ==
    /\ pc[t] = "exit"
    /\ LockRelease(t)
    /\ loc' = [loc EXCEPT ![t] = NoLocals]
    /\ Goto(t, "idle")
    /\ UNCHANGED <<nodes, head, size, seqvars, calls>>

\* insert_after, line 65: with self._lock
insert_enter(t, target_data, new_data) ==
    /\ pc[t] = "wait"
    /\ LockAcquire(t)
    /\ loc' = [loc EXCEPT ![t] = [NoLocals EXCEPT !.data = target_data,
                                                  !.new_data = new_data]]
    /\ Goto(t, "i_test")
    /\ UNCHANGED <<nodes, head, size, seqvars, calls>>

\* line 66-67: if not self.head: return False
i_test(t) ==
    /\ pc[t] = "i_test"
    /\ Goto(t, IF head = None THEN "exit" ELSE "i_cur")
    /\ UNCHANGED <<nodes, head, size, lock, loc, seqvars, calls>>

\* line 69: current = self.head
i_cur(t) ==
    /\ pc[t] = "i_cur"
    /\ loc' = [loc EXCEPT ![t].current = head]
    /\ Goto(t, "i_match")
    /\ UNCHANGED <<nodes, head, size, lock, seqvars, calls>>

\* line 71: if current.data == target_data
i_match(t) ==
    /\ pc[t] = "i_match"
    /\ IF loc[t].current = None THEN Raise(t)
       ELSE /\ Goto(t, IF nodes[loc[t].current].data = loc[t].data
                       THEN "i_new" ELSE "i_adv")
            /\ UNCHANGED <<nodes, head, size, lock, loc>>
    /\ UNCHANGED <<seqvars, calls>>

\* line 72: new_node = AlterNode(new_data)
i_new(t) ==
    /\ pc[t] = "i_new"
    /\ nodes' = Append(nodes, AlterNode(loc[t].new_data, {}))
    /\ loc' = [loc EXCEPT ![t].new_node = Len(nodes) + 1]
    /\ Goto(t, "i_next")
    /\ UNCHANGED <<head, size, lock, seqvars, calls>>

\* line 73: new_node.next = current.next
i_next(t) ==
    /\ pc[t] = "i_next"
    /\ nodes' = [nodes EXCEPT ![loc[t].new_node].next = nodes[loc[t].current].next]
    /\ Goto(t, "i_orient")
    /\ UNCHANGED <<head, size, lock, loc, seqvars, calls>>

\* line 74: new_node.orientation = 1 - current.orientation
i_orient(t) ==
    /\ pc[t] = "i_orient"
    /\ nodes' = [nodes EXCEPT ![loc[t].new_node].orientation =
                    1 - nodes[loc[t].current].orientation]
    /\ Goto(t, "i_link")
    /\ UNCHANGED <<head, size, lock, loc, seqvars, calls>>

\* line 75: current.next = new_node
i_link(t) ==
    /\ pc[t] = "i_link"
    /\ nodes' = [nodes EXCEPT ![loc[t].current].next = loc[t].new_node]
    /\ Goto(t, "inc_load")
    /\ UNCHANGED <<head, size, lock, loc, seqvars, calls>>

\* line 78: current = current.next
i_adv(t) ==
    /\ pc[t] = "i_adv"
    /\ loc' = [loc EXCEPT ![t].current = nodes[loc[t].current].next]
    /\ Goto(t, "i_brk")
    /\ UNCHANGED <<nodes, head, size, lock, seqvars, calls>>

\* line 79-81: if current == self.head: break; return False
i_brk(t) ==
    /\ pc[t] = "i_brk"
    /\ Goto(t, IF NodeEq(nodes, loc[t].current, head) THEN "exit" ELSE "i_match")
    /\ UNCHANGED <<nodes, head, size, lock, loc, seqvars, calls>>

\* remove, line 93: with self._lock
remove_enter(t, data) ==
    /\ pc[t] = "wait"
    /\ LockAcquire(t)
    /\ loc' = [loc EXCEPT ![t] = [NoLocals EXCEPT !.data = data]]
    /\ Goto(t, "r_test")
    /\ UNCHANGED <<nodes, head, size, seqvars, calls>>

\* line 94-95: if not self.head: return False
r_test(t) ==
    /\ pc[t] = "r_test"
    /\ Goto(t, IF head = None THEN "exit" ELSE "r_ishead")
    /\ UNCHANGED <<nodes, head, size, lock, loc, seqvars, calls>>

\* line 97: if self.head.data == data
r_ishead(t) ==
    /\ pc[t] = "r_ishead"
    /\ IF head = None THEN Raise(t)
       ELSE /\ Goto(t, IF nodes[head].data = loc[t].data THEN "r_single" ELSE "r_cur2")
            /\ UNCHANGED <<nodes, head, size, lock, loc>>
    /\ UNCHANGED <<seqvars, calls>>

\* line 98: if self.head.next == self.head
r_single(t) ==
    /\ pc[t] = "r_single"
    /\ IF head = None THEN Raise(t)
       ELSE /\ Goto(t, IF NodeEq(nodes, nodes[head].next, head) THEN "r_clear" ELSE "r_cur")
            /\ UNCHANGED <<nodes, head, size, lock, loc>>
    /\ UNCHANGED <<seqvars, calls>>

\* line 99: self.head = None
r_clear(t) ==
    /\ pc[t] = "r_clear"
    /\ head' = None
    /\ Goto(t, "dec_load")
    /\ UNCHANGED <<nodes, size, lock, loc, seqvars, calls>>

\* line 101: current = self.head
r_cur(t) ==
    /\ pc[t] = "r_cur"
    /\ loc' = [loc EXCEPT ![t].current = head]
    /\ Goto(t, "r_walk")
    /\ UNCHANGED <<nodes, head, size, lock, seqvars, calls>>

\* line 102-103: while current.next != self.head: current = current.next
r_walk(t) ==
    /\ pc[t] = "r_walk"
    /\ IF loc[t].current = None THEN Raise(t)
       ELSE IF ~NodeEq(nodes, nodes[loc[t].current].next, head)
       THEN /\ loc' = [loc EXCEPT ![t].current = nodes[loc[t].current].next]
            /\ UNCHANGED <<nodes, head, size, lock, pc>>
       ELSE /\ Goto(t, "r_bypass")
            /\ UNCHANGED <<nodes, head, size, lock, loc>>
    /\ UNCHANGED <<seqvars, calls>>

\* line 104: current.next = self.head.next
r_bypass(t) ==
    /\ pc[t] = "r_bypass"
    /\ IF head = None THEN Raise(t)
       ELSE /\ nodes' = [nodes EXCEPT ![loc[t].current].next = nodes[head].next]
            /\ Goto(t, "r_rehead")
            /\ UNCHANGED <<head, size, lock, loc>>
    /\ UNCHANGED <<seqvars, calls>>

\* line 105: self.head = self.head.next
r_rehead(t) ==
    /\ pc[t] = "r_rehead"
    /\ IF head = None THEN Raise(t)
       ELSE /\ head' = nodes[head].next
            /\ Goto(t, "dec_load")
            /\ UNCHANGED <<nodes, size, lock, loc>>
    /\ UNCHANGED <<seqvars, calls>>

\* line 106 / 113: self._size -= 1, the read
dec_load(t) ==
    /\ pc[t] = "dec_load"
    /\ loc' = [loc EXCEPT ![t].tmp = size]
    /\ Goto(t, "dec_store")
    /\ UNCHANGED <<nodes, head, size, lock, seqvars, calls>>

\* line 106 / 113: self._size -= 1, the write
dec_store(t) ==
    /\ pc[t] = "dec_store"
    /\ size' = loc[t].tmp - 1
    /\ Goto(t, "exit")
    /\ UNCHANGED <<nodes, head, lock, loc, seqvars, calls>>

\* line 109: current = self.head
r_cur2(t) ==
    /\ pc[t] = "r_cur2"
    /\ loc' = [loc EXCEPT ![t].current = head]
    /\ Goto(t, "r_scan")
    /\ UNCHANGED <<nodes, head, size, lock, seqvars, calls>>

\* line 110, 116: while current.next != self.head ... return False
r_scan(t) ==
    /\ pc[t] = "r_scan"
    /\ IF loc[t].current = None THEN Raise(t)
       ELSE /\ Goto(t, IF NodeEq(nodes, nodes[loc[t].current].next, head)
                       THEN "exit" ELSE "r_match")
            /\ UNCHANGED <<nodes, head, size, lock, loc>>
    /\ UNCHANGED <<seqvars, calls>>

\* line 111: if current.next.data == data
r_match(t) ==
    /\ pc[t] = "r_match"
    /\ IF nodes[loc[t].current].next = None THEN Raise(t)
       ELSE /\ Goto(t, IF nodes[nodes[loc[t].current].next].data = loc[t].data
                       THEN "r_unlink" ELSE "r_adv")
            /\ UNCHANGED <<nodes, head, size, lock, loc>>
    /\ UNCHANGED <<seqvars, calls>>

\* line 112: current.next = current.next.next
r_unlink(t) ==
    /\ pc[t] = "r_unlink"
    /\ IF nodes[loc[t].current].next = None THEN Raise(t)
       ELSE /\ nodes' = [nodes EXCEPT ![loc[t].current].next =
                            nodes[nodes[loc[t].current].next].next]
            /\ Goto(t, "dec_load")
            /\ UNCHANGED <<head, size, lock, loc>>
    /\ UNCHANGED <<seqvars, calls>>

\* line 115: current = current.next
r_adv(t) ==
    /\ pc[t] = "r_adv"
    /\ loc' = [loc EXCEPT ![t].current = nodes[loc[t].current].next]
    /\ Goto(t, "r_scan")
    /\ UNCHANGED <<nodes, head, size, lock, seqvars, calls>>

\* The statements of append.
AppendBody(t) ==
    \/ a_test(t) \/ a_head(t) \/ a_self(t) \/ a_cur(t) \/ a_walk(t)
    \/ a_orient(t) \/ a_link(t) \/ a_close(t)
    \/ inc_load(t) \/ inc_store(t) \/ exit(t)

\* The statements of insert_after.
InsertBody(t) ==
    \/ i_test(t) \/ i_cur(t) \/ i_match(t) \/ i_new(t) \/ i_next(t)
    \/ i_orient(t) \/ i_link(t) \/ i_adv(t) \/ i_brk(t)

\* The statements of remove.
RemoveBody(t) ==
    \/ r_test(t) \/ r_ishead(t) \/ r_single(t) \/ r_clear(t) \/ r_cur(t)
    \/ r_walk(t) \/ r_bypass(t) \/ r_rehead(t) \/ dec_load(t) \/ dec_store(t)
    \/ r_cur2(t) \/ r_scan(t) \/ r_match(t) \/ r_unlink(t) \/ r_adv(t)

\* Threads that call append, insert_after and remove on one container.
CallGuarded(t) == call(t) /\ UNCHANGED calls

EnterAppend(t) == \E v \in Values :
    Len(nodes) < MaxHeap /\ append_enter(t, v, {})

EnterInsert(t) == \E x \in Values, v \in Values :
    Len(nodes) < MaxHeap /\ insert_enter(t, x, v)

EnterRemove(t) == \E v \in Values : remove_enter(t, v)

NextGuarded == \E t \in Threads :
    \/ CallGuarded(t)
    \/ EnterAppend(t)
    \/ EnterInsert(t)
    \/ EnterRemove(t)
    \/ AppendBody(t)
    \/ InsertBody(t)
    \/ RemoveBody(t)

SpecGuarded == Init /\ [][NextGuarded]_vars

\* Threads contending for the lock with every call, on a container that
\* gets MaxContended nodes in all.
EnterAppendFew(t) == \E v \in Values :
    Len(nodes) < MaxContended /\ append_enter(t, v, {})

EnterInsertFew(t) == \E x \in Values, v \in Values :
    Len(nodes) < MaxContended /\ insert_enter(t, x, v)

NextContended == \E t \in Threads :
    \/ CallGuarded(t)
    \/ EnterAppendFew(t)
    \/ EnterInsertFew(t)
    \/ EnterRemove(t)
    \/ AppendBody(t)
    \/ InsertBody(t)
    \/ RemoveBody(t)

SpecContended == Init /\ [][NextContended]_vars

\* Fair scheduling: a thread inside a body keeps running, and a thread
\* waiting at the lock gets it if the lock is free again and again.
FairContended ==
    /\ SpecContended
    /\ \A t \in Threads :
          /\ WF_vars(AppendBody(t) \/ InsertBody(t) \/ RemoveBody(t))
          /\ SF_vars(EnterAppendFew(t) \/ EnterInsertFew(t) \/ EnterRemove(t))

\* NumThreads threads, each calling append CallsPerThread times on one
\* initially empty container (test_thread_safety).
CallCounted(t) ==
    /\ calls[t] < CallsPerThread
    /\ call(t)
    /\ calls' = [calls EXCEPT ![t] = @ + 1]

EnterAppendPlain(t) == \E v \in Values : append_enter(t, v, {})

NextThreads == \E t \in Threads :
    \/ CallCounted(t)
    \/ EnterAppendPlain(t)
    \/ AppendBody(t)

SpecThreads == Init /\ [][NextThreads]_vars

\* ------------------------------------------------------------ __iter__
\* A thread that iterates, statement by statement.  The generator takes no
\* lock, so its statements interleave with the bodies of the guarded calls.

\* A walk that also ends when the container has been emptied.
IterStopsOrEmptied(ns, current, h) == h = None \/ NodeEq(ns, current, h)

\* line 250: if current == self.head (None == None is True, a node is never
\* equal to None).
IterStops(ns, current, h) == NodeEq(ns, current, h)

\* The generator ends, by return or by an exception.
IterEnd(t) ==
    /\ loc' = [loc EXCEPT ![t] = NoLocals]
    /\ Goto(t, "idle")

\* A thread starts to iterate.
iter_enter(t) ==
    /\ pc[t] = "idle"
    /\ Goto(t, "it_test")
    /\ UNCHANGED <<nodes, head, size, lock, loc, seqvars, calls>>

\* line 243-244: if not self.head: return
it_test(t) ==
    /\ pc[t] = "it_test"
    /\ Goto(t, IF head = None THEN "idle" ELSE "it_cur")
    /\ UNCHANGED <<nodes, head, size, lock, loc, seqvars, calls>>

\* line 246: current = self.head
it_cur(t) ==
    /\ pc[t] = "it_cur"
    /\ loc' = [loc EXCEPT ![t].current = head]
    /\ Goto(t, "it_yield")
    /\ UNCHANGED <<nodes, head, size, lock, seqvars, calls>>

\* line 248: yield (current.data, current.orientation); AttributeError when
\* current is None.
it_yield(t) ==
    /\ pc[t] = "it_yield"
    /\ IF loc[t].current = None
       THEN IterEnd(t)
       ELSE Goto(t, "it_next") /\ UNCHANGED loc
    /\ UNCHANGED <<nodes, head, size, lock, seqvars, calls>>

\* line 249: current = current.next
it_next(t) ==
    /\ pc[t] = "it_next"
    /\ IF loc[t].current = None
       THEN IterEnd(t)
       ELSE /\ loc' = [loc EXCEPT ![t].current = nodes[loc[t].current].next]
            /\ Goto(t, "it_cmp")
    /\ UNCHANGED <<nodes, head, size, lock, seqvars, calls>>

\* line 250-251: if current == self.head: break
it_cmp(t) ==
    /\ pc[t] = "it_cmp"
    /\ IF IterStops(nodes, loc[t].current, head)
       THEN IterEnd(t)
       ELSE Goto(t, "it_yield") /\ UNCHANGED loc
    /\ UNCHANGED <<nodes, head, size, lock, seqvars, calls>>

IterBody(t) ==
    \/ it_test(t) \/ it_cur(t) \/ it_yield(t) \/ it_next(t) \/ it_cmp(t)

\* One thread iterates over the container, time after time, while the
\* others append to it and remove from it.
Reader == 1

Writers == Threads \ {Reader}

NextReaders ==
    \/ \E t \in Writers :
          \/ CallGuarded(t)
          \/ EnterAppend(t)
          \/ EnterRemove(t)
          \/ AppendBody(t)
          \/ RemoveBody(t)
    \/ iter_enter(Reader)
    \/ IterBody(Reader)

SpecReaders == Init /\ [][NextReaders]_vars

\* ------------------------------------------- flip_states beside append
\* flip_states(1) statement by statement, in a thread of its own; it takes
\* no lock (linked_list.py 118-134).
\* The call returns, or an AttributeError ends it.
FlipEnd(t) ==
    /\ loc' = [loc EXCEPT ![t] = NoLocals]
    /\ Goto(t, "idle")

\* line 125-126: if not self.head or positions == 0: return
f_test(t) ==
    /\ pc[t] = "f_test"
    /\ Goto(t, IF head = None THEN "idle" ELSE "f_cur")
    /\ UNCHANGED <<nodes, head, size, lock, loc, seqvars, calls>>

\* line 128: current = self.head
f_cur(t) ==
    /\ pc[t] = "f_cur"
    /\ loc' = [loc EXCEPT ![t].current = head]
    /\ Goto(t, "f_flip")
    /\ UNCHANGED <<nodes, head, size, lock, seqvars, calls>>

\* line 131: current.flip_orientation(); AttributeError when current is None.
f_flip(t) ==
    /\ pc[t] = "f_flip"
    /\ IF loc[t].current = None
       THEN FlipEnd(t) /\ UNCHANGED nodes
       ELSE /\ nodes' = [nodes EXCEPT ![loc[t].current].orientation = flip_orientation(@)]
            /\ Goto(t, "f_next")
            /\ UNCHANGED loc
    /\ UNCHANGED <<head, size, lock, seqvars, calls>>

\* line 132: current = current.next
f_next(t) ==
    /\ pc[t] = "f_next"
    /\ loc' = [loc EXCEPT ![t].current = nodes[loc[t].current].next]
    /\ Goto(t, "f_cmp")
    /\ UNCHANGED <<nodes, head, size, lock, seqvars, calls>>

\* line 133-134: if current == self.head: break, which ends the only lap.
f_cmp(t) ==
    /\ pc[t] = "f_cmp"
    /\ IF NodeEq(nodes, loc[t].current, head)
       THEN FlipEnd(t)
       ELSE Goto(t, "f_flip") /\ UNCHANGED loc
    /\ UNCHANGED <<nodes, head, size, lock, seqvars, calls>>

FlipBody(t) ==
    \/ f_test(t) \/ f_cur(t) \/ f_flip(t) \/ f_next(t) \/ f_cmp(t)

\* One thread calls flip_states(1) once, the others call append once each,
\* on a ring of distinct values built by appends beforehand.
Flipper == 1

Appenders == Threads \ {Flipper}

Unstarted == \A t \in Threads : calls[t] = 0

\* Every non-seam adjacent pair of the ring has complementary orientations.
Alternates ==
    \A n \in Range(Live(nodes, head)) :
        (nodes[n].next # head /\ nodes[n].next # None) =>
            nodes[nodes[n].next].orientation = 1 - nodes[n].orientation

BuildDistinct == \E v \in DistinctValues \ Stored :
    /\ Unstarted
    /\ Len(nodes) < MaxHeap
    /\ append(v, {})
    /\ UNCHANGED <<appended, threadvars>>

\* The calls start on a ring that alternates, or beside a call that did.
flip_enter(t) ==
    /\ pc[t] = "idle"
    /\ calls[t] = 0
    /\ Unstarted => Alternates
    /\ calls' = [calls EXCEPT ![t] = 1]
    /\ Goto(t, "f_test")
    /\ UNCHANGED <<nodes, head, size, lock, loc, seqvars>>

RaceCall(t) ==
    /\ calls[t] = 0
    /\ Unstarted => Alternates
    /\ call(t)
    /\ calls' = [calls EXCEPT ![t] = 1]

RaceEnter(t) == \E v \in DistinctValues \ Stored : append_enter(t, v, {})

NextFlipRace ==
    \/ BuildDistinct
    \/ flip_enter(Flipper)
    \/ FlipBody(Flipper)
    \/ \E t \in Appenders :
          \/ RaceCall(t)
          \/ RaceEnter(t)
          \/ AppendBody(t)

SpecFlipRace == Init /\ [][NextFlipRace]_vars

\* ====================================================== process_parallel
\* One call of process_parallel, statement by statement, with the worker
\* threads it starts.  main is the calling thread; workers[w] is the thread
\* started in round w - 1 of the partition loop: the arguments it was given,
\* its position, and log, the nodes it has invoked func on, in order.

\* count = nodes_per_thread + (1 if i < length % num_threads else 0)
SegCount(nodes_per_thread, length, num_threads, i) ==
    nodes_per_thread + (IF i < length % num_threads THEN 1 ELSE 0)

\* The worker of a segment is handed head instead of the walk's position.
StartNodeHead(current) == head

\* args=(current, count): the node the partition walk stands on.
StartNode(current) == current

\* thread.join() returns once the thread has run its loop to the end.
JoinReturns(w) == workers[w].done = workers[w].count

\* The caller enters process_parallel(func, num_threads).
process_parallel(num_threads) ==
    /\ main.pc = "idle"
    /\ main' = [NoCall EXCEPT !.pc = "test", !.num_threads = num_threads]
    /\ workers' = <<>>
    /\ UNCHANGED <<nodes, head, size, ret, before, appended, lock, pc, loc, calls, checkpoint>>

\* if not self.head: return
pp_test ==
    /\ main.pc = "test"
    /\ main' = [main EXCEPT !.pc = IF head = None THEN "returned" ELSE "def"]
    /\ UNCHANGED <<nodes, head, size, ret, before, appended, lock, pc, loc, calls, workers, checkpoint>>

\* def worker(start_node: AlterNode[T], count: int) -> None.  AlterNode is a
\* plain class, not a Generic, so evaluating the annotation AlterNode[T]
\* raises TypeError.  An interpreter that evaluates annotations when the def
\* statement runs (CPython 3.7 to 3.13) raises here and the call ends; one
\* that defers them (CPython 3.14 on) goes on.  setup.py admits both.
pp_def ==
    /\ main.pc = "def"
    /\ \E eager \in BOOLEAN :
          main' = [main EXCEPT !.pc = IF eager THEN "raised" ELSE "length"]
    /\ UNCHANGED <<nodes, head, size, ret, before, appended, lock, pc, loc, calls, workers, checkpoint>>

\* length = len(self); nodes_per_thread = length // num_threads;
\* threads = []; current = self.head
pp_length ==
    /\ main.pc = "length"
    /\ main' = [main EXCEPT !.pc = "loop",
                            !.length = LenOf(size),
                            !.nodes_per_thread = LenOf(size) \div main.num_threads,
                            !.current = head,
                            !.i = 0]
    /\ UNCHANGED <<nodes, head, size, ret, before, appended, lock, pc, loc, calls, workers, checkpoint>>

\* One round of `for i in range(num_threads)` up to thread.start(): the
\* count of the segment, the thread, and its start.
pp_start ==
    /\ main.pc = "loop"
    /\ main.i < main.num_threads
    /\ LET count == SegCount(main.nodes_per_thread, main.length, main.num_threads, main.i)
       IN  /\ workers' = Append(workers,
                            [start_node |-> StartNode(main.current), count |-> count,
                             current |-> StartNode(main.current), done |-> 0, log |-> <<>>])
           /\ main' = [main EXCEPT !.pc = "advance", !.count = count, !.left = count]
    /\ UNCHANGED <<nodes, head, size, ret, before, appended, lock, pc, loc, calls, checkpoint>>

\* `for _ in range(count): current = current.next`, one round per step; the
\* end of the inner loop closes the round of the outer one.
pp_advance ==
    /\ main.pc = "advance"
    /\ IF main.left = 0
       THEN main' = [main EXCEPT !.pc = "loop", !.i = @ + 1]
       ELSE main' = [main EXCEPT !.current = nodes[main.current].next, !.left = @ - 1]
    /\ UNCHANGED <<nodes, head, size, ret, before, appended, lock, pc, loc, calls, workers, checkpoint>>

\* `for thread in threads: thread.join()`, one thread per step.
pp_join ==
    /\ main.pc = "loop"
    /\ main.i = main.num_threads
    /\ main.joined < Len(workers)
    /\ JoinReturns(main.joined + 1)
    /\ main' = [main EXCEPT !.joined = @ + 1]
    /\ UNCHANGED <<nodes, head, size, ret, before, appended, lock, pc, loc, calls, workers, checkpoint>>

\* The join loop is over: process_parallel returns.
pp_return ==
    /\ main.pc = "loop"
    /\ main.i = main.num_threads
    /\ main.joined = Len(workers)
    /\ main' = [main EXCEPT !.pc = "returned"]
    /\ UNCHANGED <<nodes, head, size, ret, before, appended, lock, pc, loc, calls, workers, checkpoint>>

\* A worker round that moves on before it calls func.
workerAdvanceFirst(w) ==
    /\ workers[w].done < workers[w].count
    /\ workers' = [workers EXCEPT ![w].log = Append(@, nodes[workers[w].current].next),
                                  ![w].current = nodes[workers[w].current].next,
                                  ![w].done = @ + 1]
    /\ UNCHANGED <<nodes, head, size, ret, before, appended, lock, pc, loc, calls, main, checkpoint>>

\* One round of the worker's `for _ in range(count)`: the call of func on
\* the node it stands on, then current = current.next.
worker(w) ==
    /\ workers[w].done < workers[w].count
    /\ workers' = [workers EXCEPT ![w].log = Append(@, workers[w].current),
                                  ![w].current = nodes[workers[w].current].next,
                                  ![w].done = @ + 1]
    /\ UNCHANGED <<nodes, head, size, ret, before, appended, lock, pc, loc, calls, main, checkpoint>>

\* The container is built by appends and removes, then process_parallel is
\* called once on it.
BuildAppend == \E v \in Values :
    /\ main.pc = "idle"
    /\ size < MaxSize
    /\ append(v, {})
    /\ UNCHANGED <<appended, threadvars>>

BuildRemove == main.pc = "idle" /\ CallRemove

CallProcessParallel == \E n \in 1..MaxWorkers : process_parallel(n)

RunWorker == \E w \in DOMAIN workers : worker(w)

NextParallel ==
    \/ BuildAppend
    \/ BuildRemove
    \/ CallProcessParallel
    \/ pp_test
    \/ pp_def
    \/ pp_length
    \/ pp_start
    \/ pp_advance
    \/ pp_join
    \/ pp_return
    \/ RunWorker

SpecParallel == Init /\ [][NextParallel]_vars

\* The caller and every started thread keep being scheduled, and func
\* returns each time it is called.
FairParallel ==
    /\ SpecParallel
    /\ WF_vars(pp_test \/ pp_def \/ pp_length \/ pp_start \/ pp_advance \/ pp_join \/ pp_return)
    /\ \A w \in 1..MaxWorkers : WF_vars(w \in DOMAIN workers /\ worker(w))

\* ============================================================ properties
\* The (data, orientation) pairs of the ring, one per node reachable from
\* head, in link order.
RingPairs ==
    LET live == Live(nodes, head)
    IN  [i \in 1..Len(live) |-> <<nodes[live[i]].data, nodes[live[i]].orientation>>]

NoMetadata == \A i \in DOMAIN appended : appended[i][2] = {}

\* C1: in a container that was only appended to, every adjacent pair
\* (n, n.next) of the ring reachable from head, except the pair whose
\* successor is head, has complementary orientations.
C1_AppendAlternates ==
    \A n \in Range(Live(nodes, head)) :
        nodes[n].next # head =>
            nodes[nodes[n].next].orientation = 1 - nodes[n].orientation

\* Four values were appended, one of them a repeat, and three nodes are linked.
C1_Witness ==
    /\ ret.op = "append"
    /\ Len(appended) >= 4
    /\ Len(nodes) >= 3
    /\ \E i, j \in DOMAIN appended : i < j /\ appended[i] = appended[j]

\* C2: after appending n values to a fresh container, iteration yields those
\* n values in append order with orientations 0,1,0,1,...
C2_IterationIsAppendOrder ==
    ret.op = "iter" =>
        ret.val = [i \in 1..Len(appended) |-> <<appended[i][1], (i - 1) % 2>>]

\* C3: after any sequence of append, insert_after and remove calls, size
\* equals the number of distinct nodes reachable from head (0 without head).
C3_SizeIsRingCount ==
    LenOf(size) = Cardinality(Range(Live(nodes, head)))

\* C4: iteration yields exactly size() pairs, one per ring node, in ring
\* order from head.
C4_IterationYieldsRing ==
    ret.op = "iter" => ret.val = RingPairs /\ Len(ret.val) = LenOf(size)

\* A thread is in the body of a guarded call: past the lock's acquisition and
\* not yet past its release.
InBody(t) == pc[t] \notin {"idle", "wait"}

\* C5: at most one thread at a time is in the body of append, insert_after
\* or remove, and a thread in a body holds the lock from its first statement
\* to its last.
C5_MutualExclusion ==
    /\ \A t \in Threads : InBody(t) => lock = t
    /\ \A t, u \in Threads : InBody(t) /\ InBody(u) => t = u

\* One thread walks the ring inside remove while another waits at the lock.
C5_Witness ==
    \E t, u \in Threads :
        /\ t # u
        /\ pc[t] = "r_walk"
        /\ lock = t
        /\ pc[u] = "wait"
        /\ Len(nodes) >= 2

AllDone == \A t \in Threads : pc[t] = "idle" /\ calls[t] = CallsPerThread

\* C6: when NumThreads threads each call append CallsPerThread times on an
\* initially empty container, size is NumThreads * CallsPerThread once all
\* have finished, whatever the interleaving.
C6_SizeCountsAppends ==
    AllDone => LenOf(size) = NumThreads * CallsPerThread

\* All threads have finished and two of the appended values are equal.
C6_Witness ==
    /\ AllDone
    /\ \E i, j \in DOMAIN nodes : i # j /\ nodes[i].data = nodes[j].data

\* C7: flip_states(k) called twice in a row gives back the orientations the
\* ring had before the first call, and leaves data, metadata and the links
\* as they were.
C7_DoubleFlipRestores ==
    [][(/\ ret.op = "flip_states"
        /\ ret'.op = "flip_states"
        /\ ret'.arg = ret.arg) => nodes' = before]_vars

\* C8: flip_states(positions) inverts every node's orientation when
\* |positions| is odd and leaves every node as it was when it is even (or
\* the ring is empty); nothing but orientations changes.
C8_FlipParity ==
    [][ret'.op = "flip_states" =>
        /\ head' = head
        /\ nodes' = [i \in DOMAIN nodes |->
                        [nodes[i] EXCEPT !.orientation =
                            IF Abs(ret'.arg[1]) % 2 = 1 THEN 1 - @ ELSE @]]]_vars

\* The window of n (data, orientation) pairs that starts at ring node i.
ExpectedWindow(i, n) == Window(nodes, i, n)

\* The number of ring positions at which window w of length n starts.
Occurrences(w, n) ==
    Cardinality({i \in Range(Live(nodes, head)) : ExpectedWindow(i, n) = w})

\* C9: for 1 <= length <= size, find_patterns(length) returns exactly the
\* windows that start at two or more of the ring's positions, each with the
\* number of positions at which it starts.
C9_PatternsAreRepeatedWindows ==
    (/\ ret.op = "find_patterns"
     /\ 1 <= ret.arg[1]
     /\ ret.arg[1] <= LenOf(size)) =>
        ret.val = {<<ExpectedWindow(i, ret.arg[1]),
                     Occurrences(ExpectedWindow(i, ret.arg[1]), ret.arg[1])>> :
                   i \in {j \in Range(Live(nodes, head)) :
                            Occurrences(ExpectedWindow(j, ret.arg[1]), ret.arg[1]) >= 2}}

\* C10: after appending A,B,A,B,A,B without metadata, find_patterns(2)
\* reports the window (A,0),(B,1), or its rotation, with frequency >= 2.
C10_ABABABPattern ==
    (/\ ret.op = "find_patterns"
     /\ ret.arg = <<2>>
     /\ NoMetadata
     /\ [i \in DOMAIN appended |-> appended[i][1]] = <<"A", "B", "A", "B", "A", "B">>) =>
        \E p \in ret.val :
            /\ p[2] >= 2
            /\ p[1] \in {<< <<"A", 0>>, <<"B", 1>> >>, << <<"B", 1>>, <<"A", 0>> >>}


\* What a node holds, without its link.
Content(ns) ==
    [i \in DOMAIN ns |-> [data |-> ns[i].data, orientation |-> ns[i].orientation,
                          metadata |-> ns[i].metadata]]

\* The ring positions (in link order from head) whose node holds value v.
Holding(v) == {i \in DOMAIN nodes : nodes[i].data = v}

First(S) == CHOOSE i \in S : \A j \in S : i <= j

Without(s, i) == [j \in 1..(Len(s) - 1) |-> IF j < i THEN s[j] ELSE s[j + 1]]

\* C15: remove(value) returns true exactly when some ring node holds value;
\* it then unlinks the first such node in link order from head and no other,
\* head becomes the following node if head was removed (absent if it was the
\* only node), and size goes down by exactly one.
C15_RemoveFirstMatch ==
    [][ret'.op = "remove" =>
        /\ ret'.val = (Holding(ret'.arg[1]) # {})
        /\ Holding(ret'.arg[1]) # {} =>
            /\ Content(nodes') = Without(Content(nodes), First(Holding(ret'.arg[1])))
            /\ head' = None <=> Len(nodes) = 1
            /\ size' = size - 1]_vars

\* C16: remove of the value held by the only node of a one-node ring returns
\* true and leaves head absent, size 0 and nothing to iterate.
C16_RemoveSoleNode ==
    [][(/\ ret'.op = "remove"
        /\ Len(nodes) = 1
        /\ nodes[1].data = ret'.arg[1]) =>
            /\ ret'.val = TRUE
            /\ head' = None
            /\ LenOf(size') = 0
            /\ Iterate(nodes', head') = <<>>]_vars

InsertedAt(s, i, x) ==
    [j \in 1..(Len(s) + 1) |-> IF j <= i THEN s[j] ELSE IF j = i + 1 THEN x ELSE s[j - 1]]

\* C17: insert_after(target, v) returns true exactly when some ring node
\* holds target; it then links exactly one new node holding v right after the
\* first such node in link order from head, with the complement of that
\* node's orientation, and size goes up by one.
C17_InsertAfterFirstMatch ==
    [][ret'.op = "insert_after" =>
        /\ ret'.val = (Holding(ret'.arg[1]) # {})
        /\ Holding(ret'.arg[1]) # {} =>
            /\ Content(nodes') =
                 InsertedAt(Content(nodes), First(Holding(ret'.arg[1])),
                    [data |-> ret'.arg[2],
                     orientation |-> 1 - nodes[First(Holding(ret'.arg[1]))].orientation,
                     metadata |-> {}])
            /\ head' = head
            /\ size' = size + 1]_vars

\* C18: insert_after and remove, called on an empty ring or with a value no
\* ring node holds, return false and leave head, every link, every node's
\* value and orientation, and size as they were.
C18_NotFoundChangesNothing ==
    [][(/\ ret'.op \in {"insert_after", "remove"}
        /\ Holding(ret'.arg[1]) = {}) =>
            /\ ret'.val = FALSE
            /\ nodes' = nodes
            /\ head' = head
            /\ size' = size]_vars

\* A remove that found nothing on a ring that has nodes.
C18_Witness ==
    /\ ret.op = "remove"
    /\ ret.val = FALSE
    /\ nodes # <<>>
    /\ Holding(ret.arg[1]) = {}

\* C19: in a container that only append and insert_after have touched, every
\* adjacent pair of the ring, the pair (last node, head) excepted, has
\* complementary orientations.
C19_InsertKeepsAlternation ==
    \A i \in 1..(Len(RingPairs) - 1) : RingPairs[i + 1][2] = 1 - RingPairs[i][2]

\* C20: apply_transformation(fn) replaces the value of every ring node with
\* fn(old value, orientation), each node once, and leaves every orientation
\* and metadata, every link, head and size as they were.
C20_TransformsEveryNode ==
    [][ret'.op = "apply_transformation" =>
        /\ nodes' = [i \in DOMAIN nodes |->
                        [nodes[i] EXCEPT !.data =
                            ret'.arg[1][<<nodes[i].data, nodes[i].orientation>>]]]
        /\ head' = head
        /\ size' = size]_vars

\* The calls of func made on node n: <<worker, position in its log>>.
Invocations(n) ==
    {c \in UNION {{w} \X DOMAIN workers[w].log : w \in DOMAIN workers} :
        workers[c[1]].log[c[2]] = n}

AllInvocations ==
    UNION {{w} \X DOMAIN workers[w].log : w \in DOMAIN workers}

\* C11: when a call process_parallel(func, w) is over, func has been called
\* size() times in all and exactly once on each node of the ring; each
\* worker's calls follow the links, so the segments are contiguous, disjoint
\* and cover the ring.
C11_EveryNodeOnce ==
    main.pc \in {"returned", "raised"} =>
        /\ Cardinality(AllInvocations) = LenOf(size)
        /\ \A n \in Range(Live(nodes, head)) : Cardinality(Invocations(n)) = 1
        /\ \A w \in DOMAIN workers : \A k \in 1..(Len(workers[w].log) - 1) :
              workers[w].log[k + 1] = nodes[workers[w].log[k]].next

\* The number of calls of func made by the worker of segment i (0-based).
SegmentSize(i) == IF i + 1 \in DOMAIN workers THEN Len(workers[i + 1].log) ELSE 0

\* C12: a call process_parallel(func, w) on a non-empty ring of size s gives
\* segment i exactly floor(s / w) + (1 if i < s mod w else 0) nodes; the sizes
\* of two segments differ by at most one.
C12_SegmentSizes ==
    (main.pc \in {"returned", "raised"} /\ head # None) =>
        /\ Len(workers) = main.num_threads
        /\ \A i \in 0..(main.num_threads - 1) :
              SegmentSize(i) = (LenOf(size) \div main.num_threads)
                  + (IF i < LenOf(size) % main.num_threads THEN 1 ELSE 0)
        /\ \A i, j \in 0..(main.num_threads - 1) :
              SegmentSize(i) - SegmentSize(j) \in {0 - 1, 0, 1}

\* C13: process_parallel returns to its caller only after every thread it
\* started has made all the calls of func of its segment, and a call that
\* was made does return (func returns each time it is called).
C13_JoinAllThenReturn ==
    /\ [](main.pc = "returned" =>
            \A w \in DOMAIN workers : workers[w].done = workers[w].count)
    /\ (main.pc = "test") ~> (main.pc = "returned")

\* The node reached from n by k steps along next.
RECURSIVE Nth(_, _)
Nth(n, k) == IF k = 0 THEN n ELSE Nth(nodes[n].next, k - 1)

\* The nodes handed to the workers started before worker w.
RECURSIVE Offset(_)
Offset(w) == IF w = 1 THEN 0 ELSE Offset(w - 1) + workers[w - 1].count

\* The partition loop has fixed every segment and started its thread.
PartitionDone == Len(workers) = main.num_threads

\* C14 as stated: no call of func happens before the partitioning walk of
\* process_parallel has finished.
C14_NoCallBeforePartitionDone ==
    (\E w \in DOMAIN workers : workers[w].log # <<>>) => PartitionDone

\* C14, amended: the start node and the length of a segment are fixed by the
\* caller's own walk from head before the worker of that segment is started
\* (workers of earlier segments may already be calling func): worker w is
\* started on the node the walk reaches after the lengths of all earlier
\* segments, with the length of its segment, and its calls begin there.
C14_SegmentFixedAtStart ==
    /\ Len(workers) = IF main.pc = "advance" THEN main.i + 1 ELSE main.i
    /\ \A w \in DOMAIN workers :
          /\ workers[w].count = (LenOf(size) \div main.num_threads)
                + (IF w - 1 < LenOf(size) % main.num_threads THEN 1 ELSE 0)
          /\ workers[w].start_node = Nth(head, Offset(w))
          /\ workers[w].log # <<>> => workers[w].log[1] = workers[w].start_node

\* A worker has called func while the thread of a later segment is not
\* started yet.
C14_Witness ==
    /\ main.pc \in {"loop", "advance"}
    /\ Len(workers) < main.num_threads
    /\ \E w \in DOMAIN workers : workers[w].log # <<>>

\* C22: create_checkpoint lists one entry {data, orientation, metadata} for
\* every node of the ring, in link order from head, so the list has size()
\* entries; on an empty container the list is empty and a timestamp is there.
C22_CheckpointListsRing ==
    [][ret'.op = "create_checkpoint" =>
        /\ ret'.val.nodes = Content(nodes)
        /\ Len(ret'.val.nodes) = LenOf(size)
        /\ ret'.val.timestamp \in Timestamps]_vars

\* What a reader of the checkpoint finds in one of its entries.
ReadEntry(ns, e) ==
    IF "node" \in DOMAIN e
    THEN IF e.node \in DOMAIN ns
         THEN [data |-> ns[e.node].data, orientation |-> ns[e.node].orientation,
               metadata |-> ns[e.node].metadata]
         ELSE [data |-> "", orientation |-> 0, metadata |-> {}]
    ELSE e

ReadCheckpoint(ns, c) ==
    [nodes |-> [i \in DOMAIN c.nodes |-> ReadEntry(ns, c.nodes[i])],
     timestamp |-> c.timestamp]

\* C21: a later append, insert_after, remove, flip_states or
\* apply_transformation leaves what a checkpoint taken before it reads as
\* unchanged.
C21_CheckpointIsACopy ==
    [][(/\ checkpoint # NoCheckpoint
        /\ ret'.op \in {"append", "insert_after", "remove", "flip_states",
                        "apply_transformation"}) =>
            ReadCheckpoint(nodes', checkpoint') = ReadCheckpoint(nodes, checkpoint)]_vars

\* A checkpoint of a ring of two or more nodes, and a later call after which
\* the container no longer holds what the checkpoint lists.
C21_Witness ==
    /\ Len(checkpoint.nodes) >= 2
    /\ ret.op \in {"append", "insert_after", "remove", "flip_states",
                   "apply_transformation"}
    /\ ReadCheckpoint(nodes, checkpoint).nodes # CheckpointNodes(nodes, head)

\* A fresh container after one append per entry of the first k entries of a
\* checkpoint's node list, passing the entry's data and the metadata chosen
\* for it: <<heap, head>>.
RECURSIVE Replay(_, _, _)
Replay(entries, metadata, k) ==
    IF k = 0 THEN <<<<>>, None>>
    ELSE LET r == Replay(entries, metadata, k - 1)
         IN  <<AppendNodes(r[1], r[2], entries[k].data, metadata[k]), AppendHead(r[1], r[2])>>

\* What iteration yields over the container rebuilt from a checkpoint of the
\* present one by appending the values alone.
Rebuilt ==
    LET entries == CheckpointNodes(nodes, head)
        r == Replay(entries, [k \in DOMAIN entries |-> {}], Len(entries))
    IN  Iterate(r[1], r[2])

\* The same when each value is appended with the metadata of its entry.
RebuiltWithMetadata ==
    LET entries == CheckpointNodes(nodes, head)
        r == Replay(entries, [k \in DOMAIN entries |-> entries[k].metadata], Len(entries))
    IN  Iterate(r[1], r[2])

Orphaned(t) ==
    /\ pc[t] \in {"it_yield", "it_next", "it_cmp"}
    /\ head = None
    /\ loc[t].current # None
    /\ nodes[loc[t].current].next = loc[t].current

\* C24: an iteration whose walk was under way when a remove by another
\* thread emptied the container does not end: as long as head stays absent,
\* no step takes the walk out of its loop.
C24_OrphanedWalkNeverEnds ==
    [][\A t \in Threads : (Orphaned(t) /\ head' = None) => Orphaned(t)']_vars

\* A walk that began on a one-node ring, and the remove of another thread
\* that has since run to its end.
C24_Witness ==
    \E t, u \in Threads :
        /\ t # u
        /\ Orphaned(t)
        /\ pc[u] = "idle"
        /\ lock = None

\* C25: find_patterns(length) returns nothing whenever the container has no
\* head or length is greater than size().
C25_NoPatternBeyondSize ==
    [][(/\ ret'.op = "find_patterns"
        /\ (head = None \/ ret'.arg[1] > LenOf(size))) =>
            /\ ret'.val = {}
            /\ nodes' = nodes /\ head' = head /\ size' = size]_vars

\* A search for a pattern longer than a container of two nodes or more in
\* which shorter patterns do repeat.
C25_Witness ==
    /\ ret.op = "find_patterns"
    /\ ret.arg[1] > LenOf(size)
    /\ Len(nodes) >= 2
    /\ FindPatterns(nodes, head, size, 1) # {}

\* s is t with some elements left out, the others in their order.
RECURSIVE IsSubSeq(_, _)
IsSubSeq(s, t) ==
    IF s = <<>> THEN TRUE
    ELSE IF t = <<>> THEN FALSE
    ELSE IF Head(s) = Head(t) THEN IsSubSeq(Tail(s), Tail(t))
    ELSE IsSubSeq(s, Tail(t))

\* A successful remove(v) that unlinks a node with a ring neighbour on each
\* side: the first holder of v is neither head nor the node before the seam.
RemovesInterior(v) ==
    /\ Holding(v) # {}
    /\ First(Holding(v)) > 1
    /\ First(Holding(v)) < Len(nodes)

\* C26 as stated: after a successful remove every remaining node has the
\* orientation (and content) it had before, and removing an interior node
\* leaves its former neighbours adjacent with equal orientations.
C26_RemoveLeavesEqualNeighbours ==
    [][(ret'.op = "remove" /\ ret'.val = TRUE) =>
        /\ IsSubSeq(Content(nodes'), Content(nodes))
        /\ RemovesInterior(ret'.arg[1]) =>
            LET i == First(Holding(ret'.arg[1]))
            IN  nodes'[i - 1].orientation = nodes'[i].orientation]_vars

\* C26, amended: after a successful remove every remaining node has the
\* orientation it had before; removing an interior node leaves its former
\* neighbours adjacent, and with equal orientations when the removed node's
\* orientation differed from both of theirs.
C26_RemoveKeepsOrientations ==
    [][(ret'.op = "remove" /\ ret'.val = TRUE) =>
        /\ IsSubSeq(Content(nodes'), Content(nodes))
        /\ RemovesInterior(ret'.arg[1]) =>
            LET i == First(Holding(ret'.arg[1]))
            IN  /\ Content(nodes') = Without(Content(nodes), i)
                /\ (/\ nodes[i].orientation # nodes[i - 1].orientation
                    /\ nodes[i].orientation # nodes[i + 1].orientation) =>
                        nodes'[i - 1].orientation = nodes'[i].orientation]_vars

\* A successful remove that left head in place and two adjacent nodes of
\* equal orientation in the ring.
C26_Witness ==
    /\ ret.op = "remove"
    /\ ret.val = TRUE
    /\ Len(nodes) >= 2
    /\ nodes[1].data # ret.arg[1]
    /\ \E i \in 1..(Len(nodes) - 1) : nodes[i].orientation = nodes[i + 1].orientation

\* C27: the calls of func made for one segment are made one after another
\* on the nodes met by following the links from the segment's first node,
\* and the worker stands on the node its next call is due on; calls of
\* different segments are not ordered.
C27_SegmentInRingOrder ==
    \A w \in DOMAIN workers :
        /\ workers[w].done = Len(workers[w].log)
        /\ workers[w].done <= workers[w].count
        /\ \A k \in DOMAIN workers[w].log :
              workers[w].log[k] = Nth(workers[w].start_node, k - 1)
        /\ workers[w].current = Nth(workers[w].start_node, workers[w].done)

\* Two segments under way at once: one worker is between its first and its
\* last call while another has made calls too.
C27_Witness ==
    \E w1, w2 \in DOMAIN workers :
        /\ w1 # w2
        /\ workers[w1].done >= 1
        /\ workers[w1].done < workers[w1].count
        /\ workers[w2].done >= 1
        /\ workers[w2].done < workers[w2].count

\* C28: in every state reached by append, insert_after and remove calls,
\* head is absent exactly when size() is 0.
C28_HeadAbsentIffEmpty ==
    (head = None) <=> (LenOf(size) = 0)

\* C29: append and insert_after unlink no node: the ring before the call is
\* the ring after it with exactly one node left out, the new one, which for
\* append is the last node before the seam.
C29_GrowthUnlinksNothing ==
    [][(\/ ret'.op = "append"
        \/ ret'.op = "insert_after" /\ ret'.val = TRUE) =>
            /\ Len(nodes') = Len(nodes) + 1
            /\ IsSubSeq(Content(nodes), Content(nodes'))
            /\ ret'.op = "append" =>
                  Content(nodes) = Without(Content(nodes'), Len(nodes'))]_vars

AbsFirst(s, v) == First({i \in DOMAIN s : s[i][1] = v})

AbsHolds(s, v) == \E i \in DOMAIN s : s[i][1] = v

AbsAppend(s, v) ==
    Append(s, <<v, IF s = <<>> THEN 0 ELSE 1 - s[Len(s)][2]>>)

AbsInsertAfter(s, t, v) ==
    IF AbsHolds(s, t)
    THEN InsertedAt(s, AbsFirst(s, t), <<v, 1 - s[AbsFirst(s, t)][2]>>)
    ELSE s

AbsRemove(s, v) == IF AbsHolds(s, v) THEN Without(s, AbsFirst(s, v)) ELSE s

\* C31: while the stored values are pairwise distinct, the iteration sequence
\* is an abstract sequence of (value, orientation) pairs that every call
\* moves as the abstract operation does (append at the end with the
\* complement of the last orientation, 0 if empty; insert_after behind the
\* first match with the complement of the match; remove of the first match),
\* iteration yields all of it and size() is its length after every step.
C31_RefinesSequence ==
    [][LET s == Iterate(nodes, head)
           s2 == Iterate(nodes', head')
       IN  /\ ret'.op = "append" => s2 = AbsAppend(s, ret'.arg[1])
           /\ ret'.op = "insert_after" =>
                 /\ s2 = AbsInsertAfter(s, ret'.arg[1], ret'.arg[2])
                 /\ ret'.val = AbsHolds(s, ret'.arg[1])
           /\ ret'.op = "remove" =>
                 /\ s2 = AbsRemove(s, ret'.arg[1])
                 /\ ret'.val = AbsHolds(s, ret'.arg[1])
           /\ ret'.op = "iter" => s2 = s /\ ret'.val = s
           /\ ret'.op = "len" => s2 = s /\ ret'.val = Len(s)
           /\ LenOf(size') = Len(s2)
           /\ Len(nodes') = Len(s2)]_vars

\* An insertion into the middle of a ring of three distinct values or more.
C31_Witness ==
    /\ ret.op = "insert_after"
    /\ ret.val = TRUE
    /\ Len(nodes) >= 4
    /\ nodes[1].data # ret.arg[1]
    /\ nodes[Len(nodes)].data # ret.arg[2]
    /\ Cardinality(Stored) = Len(nodes)

\* C32: when an append by one thread and a flip_states(1) lap by another
\* run interleaved on a ring that alternates, then once both calls are over
\* every non-seam adjacent pair of the ring still has complementary
\* orientations.
C32_RaceKeepsAlternation ==
    (\A t \in Threads : calls[t] = 1 /\ pc[t] = "idle") => Alternates

====
